---- MODULE Spec2Model ----
(***************************************************************************)
(* Microgrid digital twin (core/grid_simulator.py) as a state machine.     *)
(*                                                                         *)
(* Floating-point quantities are kept as scaled integers:                  *)
(*   time_of_day         tenths of an hour          0..239                 *)
(*   cloud_cover         hundredths                 0..100                 *)
(*   wind_speed          tenths of m/s              0..250                 *)
(*   temperature         tenths of a degree C                              *)
(*   solar/wind/load, battery_charge_rate, grid_import   kW                *)
(*   battery_soc         millionths                 0..1000000             *)
(*   battery_health      1e-5                       0..100000              *)
(*   grid_frequency      mHz                        49000..51000           *)
(*   grid_voltage        1e-4 pu                    9000..11000            *)
(*   stability_score     1e-5                       0..100000              *)
(*   energy_cost         0.01 INR                                          *)
(*   reward              1e-4                                              *)
(*   action components   thousandths (0.5 is 500, 1.0 is 1000)             *)
(***************************************************************************)
EXTENDS Integers, Sequences, FiniteSets, TLC

VARIABLES
  twin,   \* id -> the MicrogridDigitalTwin instance of that name, or NoTwin
  rng,    \* the process-wide generators behind `random` and `np.random`
  call,   \* the last call made and what it returned
  ended,  \* id -> a step of this twin returned done=True since its last (re)start
  since,  \* id -> kind -> step calls since the latest inject_event(kind), or -1
  calls,  \* how many calls of each operation were made so far
  agent,  \* the RLAgent: its experience buffer and its networks' update counts
  app     \* the dashboard's st.session_state, or NoSession where no dashboard runs

vars == <<twin, rng, call, ended, since, calls, agent, app>>

----------------------------------------------------------------------------
\* Bounds of the exploration (not program constants).

MaxCalls == 2
MaxEventStep == 16
MaxEventInject == 2
MaxTwinStep == 2
MaxTwinCalls == 1
MaxPastHorizon == 2
MaxObserveStep == 1
MaxObserveReset == 1
MaxLegacyStep == 1
MaxPastCapacity == 2
MaxTrainCalls == 1
MaxTrainFill == 65
MaxChargeStep == 26
MaxWindStep == 5
MaxTrainCycles == 10
MaxEarlyStep == 1
MaxPastLimit == 2
MaxSessionResets == 1
MaxToggles == 1
MaxRetrainRun == 4
MaxTrainings == 2
MaxDischargeStep == 100
MaxPeakStep == 21
MaxPeakInject == 2

----------------------------------------------------------------------------
\* Program constants.

Horizon == 1000
CloudEventSteps == 10
WindEventSteps == 15
PeakEventSteps == 20
DegradationEventSteps == 5
SolarCapacity == 500
WindCapacity == 300
MaxChargeRate == 200
BufferCapacity == 10000
DefaultBatchSize == 64
PpoEpochs == 10
MaxSteps == 1000
TrainEpisodes == 50
TrainEpisodeSteps == 100
SequenceLength == 10
HistoryCapacity == 1000
SessionStateDim == 13
RetrainStateDim == 10

Ids == {"A", "B"}
Kinds == {"cloud_cover", "wind_drop", "peak_demand", "battery_degradation"}
NoTwin == [absent |-> TRUE]
NoSeed == -1

Clip(x, lo, hi) == IF x < lo THEN lo ELSE IF x > hi THEN hi ELSE x
Max2(a, b) == IF a > b THEN a ELSE b
Min2(a, b) == IF a < b THEN a ELSE b
Abs(x) == IF x < 0 THEN -x ELSE x

\* 1000*cos(k*pi/120), k = 0..239: np.cos on the tenth-of-an-hour grid.
CosTab ==
  <<1000, 1000, 999, 997, 995, 991, 988, 983, 978, 972, 966, 959,
    951, 943, 934, 924, 914, 903, 891, 879, 866, 853, 839, 824,
    809, 793, 777, 760, 743, 725, 707, 688, 669, 649, 629, 609,
    588, 566, 545, 522, 500, 477, 454, 431, 407, 383, 358, 334,
    309, 284, 259, 233, 208, 182, 156, 131, 105, 78, 52, 26,
    0, -26, -52, -78, -105, -131, -156, -182, -208, -233, -259, -284,
    -309, -334, -358, -383, -407, -431, -454, -477, -500, -522, -545, -566,
    -588, -609, -629, -649, -669, -688, -707, -725, -743, -760, -777, -793,
    -809, -824, -839, -853, -866, -879, -891, -903, -914, -924, -934, -943,
    -951, -959, -966, -972, -978, -983, -988, -991, -995, -997, -999, -1000,
    -1000, -1000, -999, -997, -995, -991, -988, -983, -978, -972, -966, -959,
    -951, -943, -934, -924, -914, -903, -891, -879, -866, -853, -839, -824,
    -809, -793, -777, -760, -743, -725, -707, -688, -669, -649, -629, -609,
    -588, -566, -545, -522, -500, -477, -454, -431, -407, -383, -358, -334,
    -309, -284, -259, -233, -208, -182, -156, -131, -105, -78, -52, -26,
    0, 26, 52, 78, 105, 131, 156, 182, 208, 233, 259, 284,
    309, 334, 358, 383, 407, 431, 454, 477, 500, 522, 545, 566,
    588, 609, 629, 649, 669, 688, 707, 725, 743, 760, 777, 793,
    809, 824, 839, 853, 866, 879, 891, 903, 914, 924, 934, 943,
    951, 959, 966, 972, 978, 983, 988, 991, 995, 997, 999, 1000>>

Cos1000(k) == CosTab[(k % 240) + 1]

\* 1000*(0.4 + 0.3*exp(-(h-8)^2/2) + 0.5*exp(-(h-20)^2/4)), h = t/10.
LoadTab ==
  <<400, 400, 400, 400, 400, 400, 400, 400, 400, 400, 400, 400,
    400, 400, 400, 400, 400, 400, 400, 400, 400, 400, 400, 400,
    400, 400, 400, 400, 400, 400, 400, 400, 400, 400, 400, 400,
    400, 400, 400, 400, 400, 400, 400, 400, 400, 401, 401, 401,
    402, 402, 403, 404, 406, 408, 410, 413, 417, 421, 427, 433,
    441, 449, 459, 471, 483, 497, 513, 529, 546, 564, 582, 600,
    618, 635, 651, 665, 677, 687, 694, 699, 700, 699, 694, 687,
    677, 665, 651, 635, 618, 600, 582, 564, 546, 529, 513, 497,
    483, 471, 459, 449, 441, 433, 427, 421, 417, 413, 410, 408,
    406, 404, 403, 402, 402, 401, 401, 401, 400, 400, 400, 400,
    400, 400, 400, 400, 400, 400, 400, 400, 400, 400, 400, 400,
    400, 400, 400, 400, 400, 400, 400, 400, 400, 400, 400, 400,
    400, 400, 400, 400, 401, 401, 401, 401, 402, 402, 403, 403,
    404, 405, 406, 407, 409, 411, 414, 416, 420, 423, 428, 433,
    439, 445, 453, 461, 470, 481, 492, 505, 518, 533, 549, 566,
    584, 603, 622, 643, 664, 685, 706, 728, 749, 769, 789, 808,
    826, 842, 857, 870, 880, 889, 895, 899, 900, 899, 895, 889,
    880, 870, 857, 842, 826, 808, 789, 769, 749, 728, 706, 685,
    664, 643, 622, 603, 584, 566, 549, 533, 518, 505, 492, 481,
    470, 461, 453, 445, 439, 433, 428, 423, 420, 416, 414, 411>>

----------------------------------------------------------------------------
\* The process-wide random source (np.random / random).  A generator that was
\* never seeded has an unknown state: each draw is any value of its range.
\* A seeded generator is a fixed function of (seed, position).

Unseeded == [seed |-> NoSeed, np |-> 0, py |-> 0]
Seeded(seed) == [seed |-> seed, np |-> 0, py |-> 0]

Prng(seed, pos) ==
  ((seed * 7) + (pos * pos * 3) + (pos * 5) + ((seed * pos) % 3)) % 16

\* The values the draw at `pos` of the stream may take, over the range `range`.
Draw(seed, pos, range) ==
  IF seed = NoSeed THEN {range[i] : i \in 1..Len(range)}
  ELSE {range[(Prng(seed, pos) % Len(range)) + 1]}

\* The four np.random.normal draws of one step call, in the order made:
\* cloud, wind, temperature (_update_weather), load (_update_load_demand).
StepDraws(r, p) ==
  { [cloud |-> c, wind |-> w, temp |-> t, load |-> l] :
      c \in Draw(r.seed, r.np, p.cloudNoise),
      w \in Draw(r.seed, r.np + 1, p.windNoise),
      t \in Draw(r.seed, r.np + 2, p.tempNoise),
      l \in Draw(r.seed, r.np + 3, p.loadNoise) }

\* The draws of _initialize_state: five of `random`, one of np.random.
InitDraws(r, p) ==
  { [day |-> d, cloud |-> c, wind |-> w, temp |-> t, soc |-> s, load |-> l] :
      d \in Draw(r.seed, r.py, p.days),
      c \in Draw(r.seed, r.py + 1, p.cloud0),
      w \in Draw(r.seed, r.py + 2, p.wind0),
      t \in Draw(r.seed, r.py + 3, p.temp0),
      s \in Draw(r.seed, r.py + 4, p.soc0),
      l \in Draw(r.seed, r.np, p.loadNoise) }

AfterStepDraws(r) == IF r.seed = NoSeed THEN r ELSE [r EXCEPT !.np = @ + 4]
AfterInitDraws(r) ==
  IF r.seed = NoSeed THEN r ELSE [r EXCEPT !.np = @ + 1, !.py = @ + 5]

----------------------------------------------------------------------------
\* GridState and its updates.

GridState ==
  [ solar_generation |-> 0, wind_generation |-> 0, load_demand |-> 0,
    battery_soc |-> 500000, battery_charge_rate |-> 0,
    battery_health |-> 100000, grid_import |-> 0, grid_frequency |-> 50000,
    grid_voltage |-> 10000, stability_score |-> 100000, energy_cost |-> 0,
    cloud_cover |-> 0, wind_speed |-> 0, temperature |-> 250,
    time_of_day |-> 120, day_of_year |-> 1 ]

NoViolations ==
  [ frequency_violations |-> 0, voltage_violations |-> 0,
    soc_violations |-> 0, total_violations |-> 0 ]

UpdateWeather(s, d) ==
  [s EXCEPT
     !.cloud_cover = Clip(s.cloud_cover + d.cloud - 1, 0, 100),
     !.wind_speed = Clip(s.wind_speed + d.wind, 0, 250),
     !.temperature = 270 + (80 * Cos1000(s.time_of_day + 240 - 140)) \div 1000
                       + d.temp]

\* 1000 * (1 + 0.2*sin(2*pi*day/365)), the sine read off the cosine table.
SeasonalFactor(day) ==
  1000 + (200 * Cos1000((day * 240) \div 365 + 240 - 60)) \div 1000

UpdateSolarGeneration(s) ==
  IF 60 <= s.time_of_day /\ s.time_of_day <= 180
  THEN LET base_irradiance == Max2(0, Cos1000(s.time_of_day + 240 - 120))
           cloud_factor == 1000 - 8 * s.cloud_cover
           seasonal_factor == SeasonalFactor(s.day_of_year)
           temp_factor == 10000 - 4 * Max2(0, s.temperature - 250)
           x1 == (SolarCapacity * base_irradiance * cloud_factor) \div 10000
           x2 == (x1 * seasonal_factor) \div 1000
       IN [s EXCEPT !.solar_generation = (x2 * temp_factor) \div 1000000]
  ELSE [s EXCEPT !.solar_generation = 0]

\* Variant: rated output up to and including the cut-out speed.
WindPowerRatedAtCutOut(v) ==
  IF v < 30 THEN 0
  ELSE IF v < 120 THEN (WindCapacity * (v - 30)) \div 90
  ELSE IF v <= 250 THEN WindCapacity
  ELSE 0

WindPower(v) ==
  IF v < 30 THEN 0
  ELSE IF v < 120 THEN (WindCapacity * (v - 30)) \div 90
  ELSE IF v < 250 THEN WindCapacity
  ELSE 0

UpdateWindGeneration(s) == [s EXCEPT !.wind_generation = WindPower(s.wind_speed)]

\* Variant: the load of the formula replaces the stored one only from above.
UpdateLoadDemandKeepingHigher(s, noise) ==
  LET day_type_factor == IF s.day_of_year % 7 \in {0, 6} THEN 9 ELSE 10
      random_factor == 100 + noise
      load_factor ==
        (LoadTab[s.time_of_day + 1] * day_type_factor * random_factor) \div 1000
  IN [s EXCEPT !.load_demand =
        Max2(@, (800 * Clip(load_factor, 300, 1000)) \div 1000)]

UpdateLoadDemand(s, noise) ==
  LET day_type_factor == IF s.day_of_year % 7 \in {0, 6} THEN 9 ELSE 10
      random_factor == 100 + noise
      load_factor ==
        (LoadTab[s.time_of_day + 1] * day_type_factor * random_factor) \div 1000
  IN [s EXCEPT !.load_demand = (800 * Clip(load_factor, 300, 1000)) \div 1000]

\* Variant: the voltage is left as computed, without its clip to [0.9, 1.1].
UpdateGridDynamicsUnclipped(s, power_imbalance) ==
  [s EXCEPT
     !.grid_frequency = Clip(50000 - power_imbalance, 49000, 51000),
     !.grid_voltage = 10000 - 5 * Abs(power_imbalance)]

UpdateGridDynamics(s, power_imbalance) ==
  [s EXCEPT
     !.grid_frequency = Clip(50000 - power_imbalance, 49000, 51000),
     !.grid_voltage = Clip(10000 - 5 * Abs(power_imbalance), 9000, 11000)]

\* _update_stability_score: the score, and the violation counters it bumps.
StabilityScore(s) ==
  LET freq_score == Max2(0, 1000 - Abs(s.grid_frequency - 50000))
      volt_score == Max2(0, 1000 - Abs(s.grid_voltage - 10000))
      total_generation == s.solar_generation + s.wind_generation
                            + Abs(s.battery_charge_rate) + Max2(0, s.grid_import)
      balance_ratio ==
        Min2((total_generation * 1000) \div Max2(s.load_demand, 1), 1000)
  IN 30 * freq_score + 30 * volt_score + s.battery_health \div 5
       + 20 * balance_ratio

\* Variant: a step with several violations counts once in the total.
CountViolationsOncePerStep(v, s) ==
  LET f == IF Abs(s.grid_frequency - 50000) > 500 THEN 1 ELSE 0
      u == IF Abs(s.grid_voltage - 10000) > 500 THEN 1 ELSE 0
      b == IF s.battery_soc < 100000 \/ s.battery_soc > 950000 THEN 1 ELSE 0
  IN [ frequency_violations |-> v.frequency_violations + f,
       voltage_violations |-> v.voltage_violations + u,
       soc_violations |-> v.soc_violations + b,
       total_violations |-> v.total_violations + Max2(f, Max2(u, b)) ]

\* Variant: a voltage violation is counted beyond the 0.1 pu tolerance of the
\* score, where the code counts beyond 0.05 pu.
CountViolationsAtTolerance(v, s) ==
  LET f == IF Abs(s.grid_frequency - 50000) > 500 THEN 1 ELSE 0
      u == IF Abs(s.grid_voltage - 10000) > 1000 THEN 1 ELSE 0
      b == IF s.battery_soc < 100000 \/ s.battery_soc > 950000 THEN 1 ELSE 0
  IN [ frequency_violations |-> v.frequency_violations + f,
       voltage_violations |-> v.voltage_violations + u,
       soc_violations |-> v.soc_violations + b,
       total_violations |-> v.total_violations + f + u + b ]

CountViolations(v, s) ==
  LET f == IF Abs(s.grid_frequency - 50000) > 500 THEN 1 ELSE 0
      u == IF Abs(s.grid_voltage - 10000) > 500 THEN 1 ELSE 0
      b == IF s.battery_soc < 100000 \/ s.battery_soc > 950000 THEN 1 ELSE 0
  IN [ frequency_violations |-> v.frequency_violations + f,
       voltage_violations |-> v.voltage_violations + u,
       soc_violations |-> v.soc_violations + b,
       total_violations |-> v.total_violations + f + u + b ]

UpdateStabilityScore(t) ==
  [t EXCEPT !.state.stability_score = StabilityScore(t.state),
            !.safety_violations = CountViolations(t.safety_violations, t.state)]

CalculateEnergyCost(s) ==
  [s EXCEPT !.energy_cost =
     70 * Max2(0, s.grid_import) - 40 * Max2(0, -s.grid_import)
       + 5 * Abs(s.battery_charge_rate)]

CalculateReward(s) ==
  LET renewable_ratio ==
        Min2(((s.solar_generation + s.wind_generation) * 1000)
               \div Max2(s.load_demand, 1), 1000)
      soc_penalty ==
        IF s.battery_soc < 150000 \/ s.battery_soc > 950000 THEN -500000 ELSE 0
      instability_penalty == IF s.stability_score < 70000 THEN -1000000 ELSE 0
  IN 10 * s.stability_score - 100 * s.energy_cost + 200 * renewable_ratio
       + s.battery_health + soc_penalty + instability_penalty

\* Variant: the horizon test is >= where the code has >.
CheckTerminationAtHorizon(t) ==
  \/ t.state.stability_score < 50000
  \/ t.state.battery_health < 50000
  \/ Abs(t.state.grid_frequency - 50000) > 2000
  \/ t.time_step >= Horizon

\* Variant: the frequency test is at 0.2 Hz where the code has 2.0 Hz.
CheckTerminationTightFrequency(t) ==
  \/ t.state.stability_score < 50000
  \/ t.state.battery_health < 50000
  \/ Abs(t.state.grid_frequency - 50000) > 200
  \/ t.time_step > Horizon

CheckTermination(t) ==
  \/ t.state.stability_score < 50000
  \/ t.state.battery_health < 50000
  \/ Abs(t.state.grid_frequency - 50000) > 2000
  \/ t.time_step > Horizon

----------------------------------------------------------------------------
\* MicrogridDigitalTwin: construction, reset, events.

EmptyTimers == [k \in {} |-> 0]

InitializeState(t, d) ==
  LET s0 == [t.state EXCEPT !.time_of_day = 120, !.day_of_year = d.day,
                            !.cloud_cover = d.cloud, !.wind_speed = d.wind,
                            !.temperature = d.temp]
      s1 == UpdateLoadDemand(
              UpdateWindGeneration(UpdateSolarGeneration(s0)), d.load)
      s2 == [s1 EXCEPT !.battery_soc = d.soc, !.battery_health = 100000,
                       !.grid_frequency = 50000, !.grid_voltage = 10000]
      t1 == UpdateStabilityScore([t EXCEPT !.state = s2])
  IN [t1 EXCEPT !.state = CalculateEnergyCost(t1.state)]

NewTwin(d) ==
  InitializeState(
    [ state |-> GridState, time_step |-> 0, active_events |-> <<>>,
      event_timers |-> EmptyTimers, safety_violations |-> NoViolations ], d)

ResetTwin(t, d) ==
  InitializeState(
    [t EXCEPT !.time_step = 0, !.active_events = <<>>,
              !.event_timers = EmptyTimers], d)

SetTimer(timers, k, v) ==
  [x \in DOMAIN timers \cup {k} |-> IF x = k THEN v ELSE timers[x]]

DelTimer(timers, k) == [x \in DOMAIN timers \ {k} |-> timers[x]]

ArmEvent(t, kind, steps) ==
  [t EXCEPT !.active_events = Append(@, kind),
            !.event_timers = SetTimer(@, kind, steps)]

\* Variant: only cloud_cover and wind_drop are armed.
InjectEventTwoArmed(t, kind) ==
  CASE kind = "cloud_cover" ->
         ArmEvent([t EXCEPT !.state.cloud_cover = 90], kind, CloudEventSteps)
    [] kind = "wind_drop" ->
         ArmEvent([t EXCEPT !.state.wind_speed = 10], kind, WindEventSteps)
    [] kind = "peak_demand" -> [t EXCEPT !.state.load_demand = (@ * 3) \div 2]
    [] kind = "battery_degradation" ->
         [t EXCEPT !.state.battery_health = (@ * 8) \div 10]
    [] OTHER -> t

InjectEvent(t, kind) ==
  CASE kind = "cloud_cover" ->
         ArmEvent([t EXCEPT !.state.cloud_cover = 90], kind, CloudEventSteps)
    [] kind = "wind_drop" ->
         ArmEvent([t EXCEPT !.state.wind_speed = 10], kind, WindEventSteps)
    [] kind = "peak_demand" ->
         ArmEvent([t EXCEPT !.state.load_demand = (@ * 3) \div 2], kind,
                  PeakEventSteps)
    [] kind = "battery_degradation" ->
         ArmEvent([t EXCEPT !.state.battery_health = (@ * 8) \div 10], kind,
                  DegradationEventSteps)
    [] OTHER -> t

\* list.remove: the sequence without its first occurrence of e.
RECURSIVE RemoveFirst(_, _)
RemoveFirst(seq, e) ==
  IF seq = <<>> THEN <<>>
  ELSE IF Head(seq) = e THEN Tail(seq)
  ELSE <<Head(seq)>> \o RemoveFirst(Tail(seq), e)

InSeq(seq, e) == \E i \in 1..Len(seq) : seq[i] = e

\* The first loop of _process_events over active_events[i..]: every entry that
\* has a timer decrements it, and is expired when the timer is then <= 0.
RECURSIVE CountDown(_, _, _, _)
CountDown(events, i, timers, expired) ==
  IF i > Len(events) THEN [timers |-> timers, expired |-> expired]
  ELSE LET e == events[i] IN
       IF e \in DOMAIN timers
       THEN LET timers2 == [timers EXCEPT ![e] = @ - 1] IN
            CountDown(events, i + 1, timers2,
                      IF timers2[e] <= 0 THEN Append(expired, e) ELSE expired)
       ELSE CountDown(events, i + 1, timers, expired)

\* Variant: an expired battery_degradation restores the health it took.
RevertConditionRestoring(s, e) ==
  IF e = "cloud_cover" THEN [s EXCEPT !.cloud_cover = 20]
  ELSE IF e = "wind_drop" THEN [s EXCEPT !.wind_speed = 100]
  ELSE IF e = "battery_degradation"
  THEN [s EXCEPT !.battery_health = (@ * 10) \div 8]
  ELSE s

RevertCondition(s, e) ==
  IF e = "cloud_cover" THEN [s EXCEPT !.cloud_cover = 20]
  ELSE IF e = "wind_drop" THEN [s EXCEPT !.wind_speed = 100]
  ELSE s

\* The second loop over expired[i..]: remove the entry, delete the timer
\* (KeyError when the key is already gone: the call raises there), revert.
RECURSIVE RemoveExpired(_, _, _, _)
RemoveExpired(t, expired, i, reverted) ==
  IF i > Len(expired) THEN [tw |-> t, raised |-> FALSE, reverted |-> reverted]
  ELSE LET e == expired[i] IN
       IF ~InSeq(t.active_events, e)
       THEN [tw |-> t, raised |-> TRUE, reverted |-> reverted]
       ELSE LET t1 == [t EXCEPT !.active_events = RemoveFirst(@, e)] IN
            IF e \notin DOMAIN t1.event_timers
            THEN [tw |-> t1, raised |-> TRUE, reverted |-> reverted]
            ELSE RemoveExpired(
                   [t1 EXCEPT !.event_timers = DelTimer(@, e),
                              !.state = RevertCondition(@, e)],
                   expired, i + 1,
                   IF e \in {"cloud_cover", "wind_drop"}
                   THEN reverted \cup {e} ELSE reverted)

ProcessEvents(t) ==
  LET c == CountDown(t.active_events, 1, t.event_timers, <<>>)
  IN RemoveExpired([t EXCEPT !.event_timers = c.timers], c.expired, 1, {})

----------------------------------------------------------------------------
\* MicrogridDigitalTwin.step

\* Variant: a command is clipped from below only.
ClipCmdFromBelow(x) == Max2(x, 0)

ClipCmd(x) == Clip(x, 0, 1000)

\* Variant: charging is limited by the surplus and the commanded rate only.
BatteryPowerNoHeadroom(s, charge_cmd, discharge_cmd, curtailed, shifted) ==
  IF charge_cmd > 500 /\ s.battery_soc < 950000
  THEN -Min2(Max2(0, curtailed - shifted), (charge_cmd * MaxChargeRate) \div 1000)
  ELSE IF discharge_cmd > 500 /\ s.battery_soc > 100000
  THEN Min2(Min2(Max2(0, shifted - curtailed), (discharge_cmd * MaxChargeRate) \div 1000),
            (s.battery_soc - 100000) \div 100)
  ELSE 0

BatteryPower(s, charge_cmd, discharge_cmd, curtailed, shifted) ==
  IF charge_cmd > 500 /\ s.battery_soc < 950000
  THEN -Min2(Min2(Max2(0, curtailed - shifted), (charge_cmd * MaxChargeRate) \div 1000),
             (950000 - s.battery_soc) \div 100)
  ELSE IF discharge_cmd > 500 /\ s.battery_soc > 100000
  THEN Min2(Min2(Max2(0, shifted - curtailed), (discharge_cmd * MaxChargeRate) \div 1000),
            (s.battery_soc - 100000) \div 100)
  ELSE 0

NextSoc(soc, battery_power) ==
  Clip(IF battery_power < 0 THEN soc + 95 * (-battery_power)
       ELSE soc - (battery_power * 2000) \div 19,
       0, 1000000)

DecayHealth(h) == (h * 9999) \div 10000

\* The part of step after _process_events returned.
Dispatch(t, cmd) ==
  LET s == t.state
      curtailed == ((s.solar_generation + s.wind_generation) * (2000 - cmd[5])) \div 2000
      shifted == (s.load_demand * (5000 - cmd[3])) \div 5000
      battery_power == BatteryPower(s, cmd[1], cmd[2], curtailed, shifted)
      grid_balance == shifted - curtailed - battery_power
      s1 == [s EXCEPT
               !.battery_soc = NextSoc(@, battery_power),
               !.battery_charge_rate = battery_power,
               !.battery_health = DecayHealth(@),
               !.grid_import = IF cmd[4] > 500 THEN grid_balance
                               ELSE Max2(0, grid_balance)]
      t1 == UpdateStabilityScore(
              [t EXCEPT !.state = UpdateGridDynamics(s1, grid_balance)])
  IN [t1 EXCEPT !.state = CalculateEnergyCost(t1.state)]

\* step(action) with the draws d: the twin afterwards, whether the call raised,
\* and (when it returned) the reward and done it returned.
Step(t, action, d) ==
  LET cmd == [i \in 1..5 |-> ClipCmd(action[i])]
      s1 == [t.state EXCEPT !.time_of_day = (@ + 1) % 240]
      s2 == UpdateLoadDemand(
              UpdateWindGeneration(UpdateSolarGeneration(UpdateWeather(s1, d))),
              d.load)
      pe == ProcessEvents([t EXCEPT !.time_step = @ + 1, !.state = s2])
  IN IF pe.raised
     THEN [tw |-> pe.tw, raised |-> TRUE, reward |-> 0, done |-> FALSE,
           reverted |-> pe.reverted]
     ELSE LET t2 == Dispatch(pe.tw, cmd)
          IN [tw |-> t2, raised |-> FALSE, reward |-> CalculateReward(t2.state),
              done |-> CheckTermination(t2), reverted |-> pe.reverted]

----------------------------------------------------------------------------
\* get_state_vector.  An argument is None (<<>>) or a float (<<kW>>); the
\* components of the vector are in millionths.

None == <<>>
Some(v) == <<v>>
NoForecast == [solar |-> None, wind |-> None, load |-> None]

CurrentState(t) ==
  LET s == t.state IN
    << (s.solar_generation * 1000000) \div SolarCapacity,
       (s.wind_generation * 1000000) \div WindCapacity,
       s.load_demand * 1000,
       s.battery_soc,
       s.battery_health * 10,
       s.grid_import * 1000,
       (s.grid_frequency - 50000) * 500,
       (s.grid_voltage - 10000) * 100,
       s.cloud_cover * 10000,
       s.wind_speed * 4000 >>

\* Variant: the reactive vector stops after the ten current values.
GetStateVectorTenReactive(t, f) ==
  IF f.solar # None /\ f.wind # None /\ f.load # None
  THEN CurrentState(t) \o << (f.solar[1] * 1000000) \div SolarCapacity,
                             (f.wind[1] * 1000000) \div WindCapacity,
                             f.load[1] * 1000 >>
  ELSE CurrentState(t)

\* Variant: the arguments that were supplied are used, the missing ones are
\* filled from the current state one by one.
GetStateVectorPerArgument(t, f) ==
  LET s == t.state IN
    CurrentState(t) \o
      << ((IF f.solar # None THEN f.solar[1] ELSE s.solar_generation) * 1000000)
           \div SolarCapacity,
         ((IF f.wind # None THEN f.wind[1] ELSE s.wind_generation) * 1000000)
           \div WindCapacity,
         (IF f.load # None THEN f.load[1] ELSE s.load_demand) * 1000 >>

GetStateVector(t, f) ==
  LET s == t.state
      forecast_state ==
        IF f.solar # None /\ f.wind # None /\ f.load # None
        THEN << (f.solar[1] * 1000000) \div SolarCapacity,
                (f.wind[1] * 1000000) \div WindCapacity,
                f.load[1] * 1000 >>
        ELSE << (s.solar_generation * 1000000) \div SolarCapacity,
                (s.wind_generation * 1000000) \div WindCapacity,
                s.load_demand * 1000 >>
  IN CurrentState(t) \o forecast_state

----------------------------------------------------------------------------
\* LegacyGridController.get_action (core/rl_agent.py).  In thousandths,
\* surplus / 200.0 is exact for whole kW.

\* Variant: the large-deficit import rule also takes surplus = -100.
LegacyGetActionInclusive(state) ==
  LET surplus == state.solar_generation + state.wind_generation - state.load_demand
  IN << IF surplus > 0 /\ state.battery_soc < 800000
          THEN Min2(surplus * 5, 1000) ELSE 0,
        IF surplus < 0 /\ state.battery_soc > 200000
          THEN Min2(Abs(surplus) * 5, 1000) ELSE 0,
        IF state.stability_score < 85000 THEN 500 ELSE 0,
        IF surplus <= -100 THEN 800 ELSE IF surplus < 0 THEN 300 ELSE 0,
        IF state.battery_soc > 950000 /\ surplus > 200 THEN 300 ELSE 0 >>

LegacyGetAction(state) ==
  LET action0 == <<0, 0, 0, 0, 0>>
      renewable == state.solar_generation + state.wind_generation
      load == state.load_demand
      surplus == renewable - load
      action1 == IF surplus > 0 /\ state.battery_soc < 800000
                 THEN [action0 EXCEPT ![1] = Min2(surplus * 5, 1000)]
                 ELSE action0
      action2 == IF surplus < 0 /\ state.battery_soc > 200000
                 THEN [action1 EXCEPT ![2] = Min2(Abs(surplus) * 5, 1000)]
                 ELSE action1
      action3 == IF state.stability_score < 85000
                 THEN [action2 EXCEPT ![3] = 500] ELSE action2
      action4 == IF surplus < -100 THEN [action3 EXCEPT ![4] = 800]
                 ELSE IF surplus < 0 THEN [action3 EXCEPT ![4] = 300]
                 ELSE action3
  IN IF state.battery_soc > 950000 /\ surplus > 200
     THEN [action4 EXCEPT ![5] = 300] ELSE action4

----------------------------------------------------------------------------
\* RLAgent (core/rl_agent.py).  The networks are kept as the number of
\* optimizer steps applied to each: their parameters change with an optimizer
\* step and with nothing else.  Losses are in thousandths.

\* RLAgent(state_dim, action_dim)
RLAgent(state_dim) ==
  [buffer |-> <<>>, policy_steps |-> 0, value_steps |-> 0,
   state_dim |-> state_dim]

NewAgent == RLAgent(SessionStateDim)

\* select_action(state): the first layer of the policy network takes state_dim
\* inputs, and raises on a state of any other length.
SelectActionRaises(ag, state) == Len(state) # ag.state_dim

NoMetrics == <<>>
ZeroMetrics == [policy_loss |-> 0, value_loss |-> 0, entropy |-> 0]

\* Variant: new entries enter at the left end.
DequeAppendLeft(buffer, x) ==
  IF Len(buffer) = BufferCapacity
  THEN <<x>> \o SubSeq(buffer, 1, Len(buffer) - 1)
  ELSE <<x>> \o buffer

\* deque(maxlen=BufferCapacity).append
DequeAppend(buffer, x) ==
  IF Len(buffer) = BufferCapacity THEN Append(Tail(buffer), x)
  ELSE Append(buffer, x)

StoreTransition(ag, state, action, reward, next_state, done) ==
  [ag EXCEPT !.buffer = DequeAppend(@, <<state, action, reward, next_state, done>>)]

\* Variant: an under-filled buffer is trained on as far as it goes.
TrainStepOnWhatThereIs(ag, batch_size, losses) ==
  IF Len(ag.buffer) = 0
  THEN [ag |-> ag, metrics |-> ZeroMetrics, sampled |-> 0]
  ELSE [ag |-> [ag EXCEPT !.policy_steps = @ + PpoEpochs,
                          !.value_steps = @ + PpoEpochs],
        metrics |-> losses, sampled |-> Min2(batch_size, Len(ag.buffer))]

\* train_step(batch_size): the agent afterwards, the metrics returned and the
\* number of entries random.sample drew.  `losses` are the mean losses of the
\* epochs, whatever the networks make them.
TrainStep(ag, batch_size, losses) ==
  IF Len(ag.buffer) < batch_size
  THEN [ag |-> ag, metrics |-> ZeroMetrics, sampled |-> 0]
  ELSE [ag |-> [ag EXCEPT !.policy_steps = @ + PpoEpochs,
                          !.value_steps = @ + PpoEpochs],
        metrics |-> losses, sampled |-> batch_size]

\* random.sample advances `random` by at least one draw per sampled entry.
AfterSampleDraws(r, n) == IF r.seed = NoSeed THEN r ELSE [r EXCEPT !.py = @ + n]

----------------------------------------------------------------------------
\* The calls a caller makes, as actions.  `p` gives the values the draws range
\* over (a profile); the bounds cap the depth explored.

\* Values the noise and the initial draws range over.
ProfWide ==
  [ cloudNoise |-> <<-5, 5>>, windNoise |-> <<-10, 10>>, tempNoise |-> <<0>>,
    loadNoise |-> <<0>>,
    days |-> <<91, 274>>, cloud0 |-> <<0>>, wind0 |-> <<50, 150>>,
    temp0 |-> <<275>>, soc0 |-> <<400000, 600000>> ]

ProfCalm ==
  [ cloudNoise |-> <<0>>, windNoise |-> <<0>>, tempNoise |-> <<0>>,
    loadNoise |-> <<0>>,
    days |-> <<91>>, cloud0 |-> <<15>>, wind0 |-> <<100>>,
    temp0 |-> <<275>>, soc0 |-> <<500000>> ]

ProfSeeded ==
  [ cloudNoise |-> <<-5, 0, 5>>, windNoise |-> <<-10, 0, 10>>,
    tempNoise |-> <<-10, 0, 10>>, loadNoise |-> <<-10, 0, 10>>,
    days |-> <<1, 91, 182, 274>>, cloud0 |-> <<0, 15, 30>>,
    wind0 |-> <<50, 100, 150>>, temp0 |-> <<200, 275, 350>>,
    soc0 |-> <<400000, 500000, 600000>> ]

Seeds == {1, 2, 3}

Idle == <<0, 0, 0, 0, 0>>
Actions ==
  { Idle, <<1500, -300, 0, 0, 0>>, <<0, 1000, 1000, 1000, 0>>,
    <<1000, 0, 0, 1000, 1200>> }
HorizonActions == {Idle, <<0, 0, 0, 1000, 0>>}
ActionSeq ==
  << <<1000, 0, 0, 0, 0>>, <<0, 1000, 0, 1000, 0>>, Idle,
     <<0, 0, 1000, 0, 1000>> >>

NoCall ==
  [ op |-> "none", id |-> "A", kind |-> "", action |-> <<>>, raised |-> FALSE,
    done |-> FALSE, reward |-> 0, reverted |-> {}, forecast |-> NoForecast,
    obs |-> <<>>, batch_size |-> 0, metrics |-> NoMetrics, stored |-> <<>>,
    select |-> <<>> ]

NoCalls == [step |-> 0, inject |-> 0, reset |-> 0, store |-> 0]

Untracked == [cloud_cover |-> -1, wind_drop |-> -1]

NoSession == [absent |-> TRUE]

Init ==
  /\ twin = [i \in Ids |-> NoTwin]
  /\ rng = Unseeded
  /\ call = NoCall
  /\ ended = [i \in Ids |-> FALSE]
  /\ since = [i \in Ids |-> Untracked]
  /\ calls = NoCalls
  /\ agent = NewAgent
  /\ app = NoSession

\* MicrogridDigitalTwin(seed)
Construct(id, seed, p) ==
  /\ twin[id] = NoTwin
  /\ LET r == IF seed = NoSeed THEN rng ELSE Seeded(seed) IN
       /\ \E d \in InitDraws(r, p) : twin' = [twin EXCEPT ![id] = NewTwin(d)]
       /\ rng' = AfterInitDraws(r)
  /\ call' = [NoCall EXCEPT !.op = "construct", !.id = id]
  /\ UNCHANGED <<ended, since, calls, agent, app>>

\* reset()
DoReset(id, p) ==
  /\ twin[id] # NoTwin
  /\ \E d \in InitDraws(rng, p) : twin' = [twin EXCEPT ![id] = ResetTwin(@, d)]
  /\ rng' = AfterInitDraws(rng)
  /\ call' = [NoCall EXCEPT !.op = "reset", !.id = id,
                            !.obs = GetStateVector(twin'[id], NoForecast)]
  /\ ended' = [ended EXCEPT ![id] = FALSE]
  /\ since' = [since EXCEPT ![id] = Untracked]
  /\ calls' = [calls EXCEPT !.reset = @ + 1]
  /\ UNCHANGED <<agent, app>>

\* inject_event(kind)
DoInject(id, kind) ==
  /\ twin[id] # NoTwin
  /\ twin' = [twin EXCEPT ![id] = InjectEvent(@, kind)]
  /\ call' = [NoCall EXCEPT !.op = "inject", !.id = id, !.kind = kind]
  /\ since' = [since EXCEPT ![id] =
                 [k \in DOMAIN Untracked |-> IF k = kind THEN 0 ELSE -1]]
  /\ calls' = [calls EXCEPT !.inject = @ + 1]
  /\ UNCHANGED <<rng, ended, agent, app>>

\* step(action)
DoStep(id, action, p) ==
  /\ twin[id] # NoTwin
  /\ \E d \in StepDraws(rng, p) :
       LET r == Step(twin[id], action, d) IN
         /\ twin' = [twin EXCEPT ![id] = r.tw]
         /\ call' = [ op |-> "step", id |-> id, kind |-> "", action |-> action,
                      raised |-> r.raised, done |-> r.done,
                      reward |-> r.reward, reverted |-> r.reverted,
                      forecast |-> NoForecast,
                      obs |-> IF r.raised THEN <<>>
                              ELSE GetStateVector(r.tw, NoForecast),
                      batch_size |-> 0, metrics |-> NoMetrics,
                      stored |-> <<>>, select |-> <<>> ]
         /\ ended' = [ended EXCEPT ![id] = @ \/ r.done]
  /\ rng' = AfterStepDraws(rng)
  /\ since' = [since EXCEPT ![id] =
                 [k \in DOMAIN Untracked |->
                    IF @[k] < 0 \/ @[k] > WindEventSteps THEN -1 ELSE @[k] + 1]]
  /\ calls' = [calls EXCEPT !.step = @ + 1]
  /\ UNCHANGED <<agent, app>>

\* get_state_vector(forecast_solar, forecast_wind, forecast_load)
DoObserve(id, f) ==
  /\ twin[id] # NoTwin
  /\ call' = [NoCall EXCEPT !.op = "observe", !.id = id, !.forecast = f,
                            !.obs = GetStateVector(twin[id], f)]
  /\ UNCHANGED <<twin, rng, ended, since, calls, agent, app>>

\* rl_agent.store_transition(state, action, reward, next_state, done)
DoStore(state, action, reward, next_state, done) ==
  /\ agent' = StoreTransition(agent, state, action, reward, next_state, done)
  /\ call' = [NoCall EXCEPT !.op = "store",
                 !.stored = <<state, action, reward, next_state, done>>]
  /\ calls' = [calls EXCEPT !.store = @ + 1]
  /\ UNCHANGED <<twin, rng, ended, since, app>>

\* rl_agent.train_step(batch_size)
DoTrain(batch_size, losses) ==
  /\ LET r == TrainStep(agent, batch_size, losses) IN
       /\ agent' = r.ag
       /\ call' = [NoCall EXCEPT !.op = "train", !.batch_size = batch_size,
                                 !.metrics = r.metrics]
       /\ rng' = AfterSampleDraws(rng, r.sampled)
  /\ UNCHANGED calls
  /\ UNCHANGED <<twin, ended, since, app>>

----------------------------------------------------------------------------
\* The dashboard (src/app.py).  Its st.session_state holds the twin the
\* operator watches ("A", simulator), the twin of the baseline controller
\* ("B", simulator_legacy), the agent, a forecaster and the run flags.  Of a
\* forecaster only the length of its history is kept: what predict() returns
\* once the history holds SequenceLength observations is the output of a
\* network, ranged over Predictions.  The toggles ai_enabled and
\* use_forecasting keep the values the session starts with.

NoTraining ==
  [ active |-> FALSE, pc |-> "episode", episode |-> 0, step |-> 0,
    temp_sim |-> NoTwin, temp_forecaster |-> 0, state |-> <<>> ]

NewSession ==
  [ current_step |-> 0, simulation_running |-> FALSE, ai_enabled |-> TRUE,
    use_forecasting |-> TRUE, training_complete |-> FALSE,
    comparison_mode |-> FALSE, forecaster |-> 0,
    history |-> [ai |-> 0, rule |-> 0], training |-> NoTraining,
    trainings |-> 0,
    steps |-> [i \in Ids |-> 0], resets |-> 0, toggles |-> 0 ]

\* The first run of the script: both twins, the agent and the forecaster.
InitSession ==
  /\ \E d1 \in InitDraws(Unseeded, ProfCalm) :
       \E d2 \in InitDraws(AfterInitDraws(Unseeded), ProfCalm) :
         twin = [i \in Ids |-> IF i = "A" THEN NewTwin(d1) ELSE NewTwin(d2)]
  /\ rng = AfterInitDraws(AfterInitDraws(Unseeded))
  /\ call = NoCall
  /\ ended = [i \in Ids |-> FALSE]
  /\ since = [i \in Ids |-> Untracked]
  /\ calls = NoCalls
  /\ agent = NewAgent
  /\ app = NewSession

\* forecaster.update_history(...): the length of the history afterwards
UpdateHistory(h) == Min2(h + 1, HistoryCapacity)

\* What predict() can return when the history is long enough.
Predictions ==
  { [solar |-> Some(250), wind |-> Some(100), load |-> Some(400)],
    [solar |-> Some(-20), wind |-> Some(640), load |-> Some(0)] }

\* The forecast arguments a loop passes to get_state_vector: a prediction
\* once the history holds SequenceLength observations, none before.
ForecastArgs(use_forecasting, h) ==
  IF use_forecasting /\ h >= SequenceLength THEN Predictions
  ELSE {NoForecast}

\* rl_agent.select_action(state): a sample of the policy clipped to [0, 1].
AgentActions == { <<1000, 0, 0, 0, 0>>, <<0, 1000, 300, 1000, 0>> }

\* The tuple a pass of the training loop stores, had it taken its first
\* observation after the step.
TrainTransitionObservedLate(t, f, action, r) ==
  << GetStateVector(r.tw, f), action, r.reward, GetStateVector(r.tw, f),
     r.done >>

\* The tuple a pass of the training loop stores: `t` is temp_sim before the
\* step, `f` what predict() returns during the pass, `r` what step returned.
TrainTransition(t, f, action, r) ==
  << GetStateVector(t, f), action, r.reward, GetStateVector(r.tw, f),
     r.done >>

\* "Train RL Agent (Quick)" is clicked: the handler enters its episode loop.
ClickTrain ==
  /\ ~app.training_complete
  /\ ~app.training.active
  /\ app' = [app EXCEPT !.training = [NoTraining EXCEPT !.active = TRUE],
                        !.trainings = @ + 1]
  /\ UNCHANGED <<twin, rng, call, ended, since, calls, agent>>

\* for episode in range(episodes): a new temp_sim and temp_forecaster, or the
\* end of the training.
TrainEpisode(p) ==
  /\ app.training.active
  /\ app.training.pc = "episode"
  /\ IF app.training.episode < TrainEpisodes
     THEN /\ \E d \in InitDraws(rng, p) :
               app' = [app EXCEPT !.training =
                         [@ EXCEPT !.pc = "step", !.step = 0,
                                   !.temp_sim = NewTwin(d),
                                   !.temp_forecaster = 0,
                                   !.state =
                                     GetStateVector(NewTwin(d), NoForecast)]]
          /\ rng' = AfterInitDraws(rng)
     ELSE /\ app' = [app EXCEPT !.training = NoTraining,
                                !.training_complete = TRUE]
          /\ rng' = rng
  /\ UNCHANGED <<twin, call, ended, since, calls, agent>>

\* for step in range(100): one pass of the inner loop.  An exception of
\* select_action leaves the handler: the training is over, not complete.
TrainCycle(p, losses) ==
  /\ app.training.active
  /\ app.training.pc = "step"
  /\ LET t == app.training.temp_sim
         h == UpdateHistory(app.training.temp_forecaster)
     IN \E f \in ForecastArgs(TRUE, h) :
          IF SelectActionRaises(agent, GetStateVector(t, f))
          THEN /\ app' = [app EXCEPT !.training = NoTraining]
               /\ call' = [NoCall EXCEPT !.op = "train_cycle", !.id = "T",
                             !.raised = TRUE, !.forecast = f,
                             !.select = GetStateVector(t, f)]
               /\ UNCHANGED <<agent, rng, calls>>
          ELSE \E action \in AgentActions, d \in StepDraws(rng, p) :
            LET r == Step(t, action, d)
                stored == TrainTransition(t, f, action, r)
                tr == TrainStep(StoreTransition(agent, stored[1], stored[2],
                                                stored[3], stored[4], stored[5]),
                                DefaultBatchSize, losses)
                over == r.done \/ app.training.step + 1 = TrainEpisodeSteps
            IN /\ ~r.raised   \* temp_sim has no event that could make step raise
               /\ agent' = tr.ag
               /\ rng' = AfterSampleDraws(AfterStepDraws(rng), tr.sampled)
               /\ app' = [app EXCEPT !.training =
                            [@ EXCEPT !.temp_sim = r.tw, !.temp_forecaster = h,
                                      !.state = stored[4],
                                      !.step = IF over THEN 0 ELSE @ + 1,
                                      !.episode = IF over THEN @ + 1 ELSE @,
                                      !.pc = IF over THEN "episode" ELSE "step"]]
               /\ call' = [ op |-> "train_cycle", id |-> "T", kind |-> "",
                            action |-> action, raised |-> FALSE,
                            done |-> r.done, reward |-> r.reward,
                            reverted |-> r.reverted, forecast |-> f,
                            obs |-> stored[4],
                            batch_size |-> DefaultBatchSize,
                            metrics |-> tr.metrics, stored |-> stored,
                            select |-> stored[1] ]
               /\ calls' = [calls EXCEPT !.step = @ + 1, !.store = @ + 1]
  /\ UNCHANGED <<twin, ended, since>>

\* "Retrain": a new agent, and the training is to be done again.
ClickRetrain ==
  /\ app.training_complete
  /\ app' = [app EXCEPT !.training_complete = FALSE]
  /\ agent' = RLAgent(RetrainStateDim)
  /\ call' = [NoCall EXCEPT !.op = "click_retrain"]
  /\ UNCHANGED <<twin, rng, ended, since, calls>>

\* "Start"
ClickStart ==
  /\ app' = [app EXCEPT !.simulation_running = TRUE]
  /\ UNCHANGED <<twin, rng, call, ended, since, calls, agent>>

\* "Pause"
ClickPause ==
  /\ app' = [app EXCEPT !.simulation_running = FALSE]
  /\ UNCHANGED <<twin, rng, call, ended, since, calls, agent>>

\* "Reset Simulation": a new simulator, empty histories, current_step 0.
\* simulator_legacy and the forecaster are kept.
ClickReset(p) ==
  /\ \E d \in InitDraws(rng, p) : twin' = [twin EXCEPT !["A"] = NewTwin(d)]
  /\ rng' = AfterInitDraws(rng)
  /\ app' = [app EXCEPT !.history = [ai |-> 0, rule |-> 0],
                        !.current_step = 0, !.simulation_running = FALSE,
                        !.steps = [i \in Ids |-> 0], !.resets = @ + 1]
  /\ call' = [NoCall EXCEPT !.op = "click_reset"]
  /\ ended' = [ended EXCEPT !["A"] = FALSE]
  /\ since' = [since EXCEPT !["A"] = Untracked]
  /\ UNCHANGED <<calls, agent>>

\* The checkbox "Run Side-by-Side Comparison"
ToggleComparison ==
  /\ app' = [app EXCEPT !.comparison_mode = ~@, !.toggles = @ + 1]
  /\ UNCHANGED <<twin, rng, call, ended, since, calls, agent>>

\* The action of the AI side: the agent's once it is trained.
AiAction(untrained) ==
  IF app.training_complete THEN AgentActions ELSE {untrained}

\* A run of the script in comparison mode while simulation_running: both
\* twins take one step, unless current_step has reached max_steps.
RunCycleComparison(p) ==
  /\ app.simulation_running
  /\ app.comparison_mode
  /\ IF app.current_step >= MaxSteps
     THEN /\ app' = [app EXCEPT !.simulation_running = FALSE]
          /\ call' = [NoCall EXCEPT !.op = "run_cycle"]
          /\ UNCHANGED <<twin, rng, ended, calls>>
     ELSE LET h == UpdateHistory(app.forecaster)
              action_rule == LegacyGetAction(twin["B"].state)
          IN \E f \in ForecastArgs(app.use_forecasting, h),
                action_ai \in AiAction(Idle),
                d1 \in StepDraws(rng, p),
                d2 \in StepDraws(AfterStepDraws(rng), p) :
               LET r1 == Step(twin["A"], action_ai, d1)
                   r2 == Step(twin["B"], action_rule, d2)
               IN /\ ~r1.raised /\ ~r2.raised   \* no event is injected here
                  \* an exception of select_action would end the run here
                  /\ app.training_complete =>
                       ~SelectActionRaises(agent, GetStateVector(twin["A"], f))
                  /\ twin' = [twin EXCEPT !["A"] = r1.tw, !["B"] = r2.tw]
                  /\ rng' = AfterStepDraws(AfterStepDraws(rng))
                  /\ app' = [app EXCEPT
                               !.forecaster = h,
                               !.history = [ai |-> @.ai + 1,
                                            rule |-> @.rule + 1],
                               !.current_step = @ + 1,
                               !.steps = [i \in Ids |-> @[i] + 1]]
                  /\ call' = [NoCall EXCEPT !.op = "run_cycle",
                                !.action = action_ai, !.forecast = f,
                                !.obs = GetStateVector(twin["A"], f),
                                !.select =
                                  IF app.training_complete
                                  THEN GetStateVector(twin["A"], f) ELSE <<>>,
                                !.reward = r1.reward, !.done = r1.done]
                  /\ ended' = [i \in Ids |->
                                 ended[i] \/ IF i = "A" THEN r1.done
                                             ELSE r2.done]
                  /\ calls' = [calls EXCEPT !.step = @ + 2]
  /\ UNCHANGED <<since, agent>>

\* A run of the script in single mode while simulation_running.  Only the
\* first get_state_vector is under the `else` of the max_steps test: the
\* forecaster update, the step and the increment of current_step follow it
\* at the level of `if simulation_running`.
RunCycleSingle(p) ==
  /\ app.simulation_running
  /\ ~app.comparison_mode
  /\ LET h == UpdateHistory(app.forecaster)
         mode == IF app.ai_enabled THEN "ai" ELSE "rule"
     IN \E f \in ForecastArgs(app.use_forecasting, h),
           action \in IF app.ai_enabled
                      THEN AiAction(LegacyGetAction(twin["A"].state))
                      ELSE {LegacyGetAction(twin["A"].state)},
           d \in StepDraws(rng, p) :
          LET r == Step(twin["A"], action, d)
          IN /\ ~r.raised   \* no event is injected here
             \* an exception of select_action would end the run here
             /\ (app.ai_enabled /\ app.training_complete) =>
                  ~SelectActionRaises(agent, GetStateVector(twin["A"], f))
             /\ twin' = [twin EXCEPT !["A"] = r.tw]
             /\ app' = [app EXCEPT
                          !.simulation_running =
                            IF app.current_step >= MaxSteps THEN FALSE ELSE @,
                          !.forecaster = h,
                          !.history = [@ EXCEPT ![mode] = @ + 1],
                          !.current_step = @ + 1,
                          !.steps = [@ EXCEPT !["A"] = @ + 1]]
             /\ call' = [NoCall EXCEPT !.op = "run_cycle",
                           !.action = action, !.forecast = f,
                           !.obs = GetStateVector(twin["A"], f),
                           !.select =
                             IF app.ai_enabled /\ app.training_complete
                             THEN GetStateVector(twin["A"], f) ELSE <<>>,
                           !.reward = r.reward, !.done = r.done]
             /\ ended' = [ended EXCEPT !["A"] = @ \/ r.done]
  /\ rng' = AfterStepDraws(rng)
  /\ calls' = [calls EXCEPT !.step = @ + 1]
  /\ UNCHANGED <<since, agent>>

----------------------------------------------------------------------------
\* One twin driven by any caller: steps, events and resets in any order.

NCalls == calls.step + calls.inject + calls.reset

Next ==
  \/ Construct("A", NoSeed, ProfWide)
  \/ \E a \in Actions : NCalls < MaxCalls /\ DoStep("A", a, ProfWide)
  \/ \E k \in Kinds : NCalls < MaxCalls /\ DoInject("A", k)
  \/ NCalls < MaxCalls /\ DoReset("A", ProfWide)

Spec == Init /\ [][Next]_vars

\* One twin under calm weather, long enough for event timers to run out.
NextEvents ==
  \/ Construct("A", NoSeed, ProfCalm)
  \/ twin["A"] # NoTwin /\ twin["A"].time_step < MaxEventStep /\ DoStep("A", Idle, ProfCalm)
  \/ \E k \in Kinds :
       calls.inject < MaxEventInject /\ DoInject("A", k)

SpecEvents == Init /\ [][NextEvents]_vars

\* One twin run past the step horizon.
NextHorizon ==
  \/ Construct("A", NoSeed, ProfCalm)
  \/ \E a \in HorizonActions :
       twin["A"] # NoTwin /\ twin["A"].time_step < Horizon + MaxPastHorizon
         /\ DoStep("A", a, ProfCalm)

SpecHorizon == Init /\ [][NextHorizon]_vars

\* Two twins constructed with one seed and stepped through one action sequence,
\* their calls interleaved in any order.
NextSeeded ==
  \/ \E id \in Ids, s \in Seeds :
       rng.seed \in {NoSeed, s} /\ Construct(id, s, ProfSeeded)
  \/ \E id \in Ids :
       twin[id] # NoTwin /\ twin[id].time_step < MaxTwinStep
         /\ DoStep(id, ActionSeq[twin[id].time_step + 1], ProfSeeded)

SpecSeeded == Init /\ [][NextSeeded]_vars

\* Two twins in one process, each driven by its own caller.
NextTwins ==
  \/ \E id \in Ids, s \in Seeds : Construct(id, s, ProfSeeded)
  \/ \E id \in Ids :
       twin[id] # NoTwin /\ calls.step < MaxTwinCalls
         /\ DoStep(id, ActionSeq[twin[id].time_step + 1], ProfSeeded)
  \/ \E id \in Ids, k \in Kinds :
       calls.inject < MaxTwinCalls /\ DoInject(id, k)
  \/ \E id \in Ids : calls.reset < MaxTwinCalls /\ DoReset(id, ProfSeeded)

SpecTwins == Init /\ [][NextTwins]_vars

\* One twin stepped, reset and observed, with and without forecast arguments.
ForecastValues == {None, Some(250)}
Forecasts == [solar : ForecastValues, wind : ForecastValues, load : ForecastValues]

NextObserve ==
  \/ Construct("A", NoSeed, ProfWide)
  \/ \E a \in Actions :
       twin["A"] # NoTwin /\ twin["A"].time_step < MaxObserveStep
         /\ DoStep("A", a, ProfCalm)
  \/ calls.reset < MaxObserveReset /\ DoReset("A", ProfCalm)
  \/ \E f \in Forecasts : DoObserve("A", f)

SpecObserve == Init /\ [][NextObserve]_vars

\* The baseline controller asked for its action on GridState values around
\* the thresholds of its rules, before and after a step of the twin.
LegacySolar == {0, 100, 300, 500}
LegacyWind == {0, 100}
LegacyLoad == {200, 300, 400}
LegacySoc == {150000, 200000, 500000, 800000, 950000, 980000}
LegacyStability == {84999, 85000, 90000}

InitLegacy ==
  /\ \E d \in InitDraws(Unseeded, ProfCalm) :
       \E sg \in LegacySolar, wg \in LegacyWind, ld \in LegacyLoad,
          soc \in LegacySoc, st \in LegacyStability :
         twin = [i \in Ids |->
                   IF i = "A"
                   THEN [NewTwin(d) EXCEPT !.state.solar_generation = sg,
                                           !.state.wind_generation = wg,
                                           !.state.load_demand = ld,
                                           !.state.battery_soc = soc,
                                           !.state.stability_score = st]
                   ELSE NoTwin]
  /\ rng = AfterInitDraws(Unseeded)
  /\ call = [NoCall EXCEPT !.op = "construct", !.id = "A"]
  /\ ended = [i \in Ids |-> FALSE]
  /\ since = [i \in Ids |-> Untracked]
  /\ calls = NoCalls
  /\ agent = NewAgent
  /\ app = NoSession

\* legacy_controller.get_action(twin.state)
DoLegacyGetAction(id) ==
  /\ twin[id] # NoTwin
  /\ call' = [NoCall EXCEPT !.op = "get_action", !.id = id,
                            !.action = LegacyGetAction(twin[id].state)]
  /\ UNCHANGED <<twin, rng, ended, since, calls, agent, app>>

NextLegacy ==
  \/ DoLegacyGetAction("A")
  \/ calls.step < MaxLegacyStep /\ DoStep("A", Idle, ProfCalm)

SpecLegacy == InitLegacy /\ [][NextLegacy]_vars

\* The agent's buffer filled past its capacity, with training calls while it
\* holds up to MaxTrainFill transitions and when it is full.
\* The n-th transition stored is told from the others by its content.
Payload(n) == [state |-> n, action |-> 0, reward |-> n % 7,
               next_state |-> n + 1, done |-> n % 100 = 0]
BatchSizes == {DefaultBatchSize, 2 * BufferCapacity}
TrainLosses == {[policy_loss |-> -12, value_loss |-> 250, entropy |-> 1400]}

NextBuffer ==
  \/ calls.store < BufferCapacity + MaxPastCapacity
       /\ LET x == Payload(calls.store + 1) IN
            DoStore(x.state, x.action, x.reward, x.next_state, x.done)
  \/ \E b \in BatchSizes, l \in TrainLosses :
       /\ agent.policy_steps < MaxTrainCalls * PpoEpochs
       /\ Len(agent.buffer) <= MaxTrainFill \/ Len(agent.buffer) = BufferCapacity
       /\ DoTrain(b, l)

SpecBuffer == Init /\ [][NextBuffer]_vars

\* One twin charged step after step until the battery nears its upper limit.
ChargeActions == {Idle, <<1000, 0, 0, 0, 0>>, <<600, 0, 0, 0, 0>>}

NextCharge ==
  \/ Construct("A", NoSeed, ProfCalm)
  \/ \E a \in ChargeActions :
       twin["A"] # NoTwin /\ twin["A"].time_step < MaxChargeStep
         /\ DoStep("A", a, ProfCalm)

SpecCharge == Init /\ [][NextCharge]_vars

\* One twin under a dim sky and little wind, discharged step after step until
\* the battery nears its lower limit.
ProfDim ==
  [ cloudNoise |-> <<0>>, windNoise |-> <<0>>, tempNoise |-> <<0>>,
    loadNoise |-> <<0>>,
    days |-> <<91>>, cloud0 |-> <<30>>, wind0 |-> <<50>>,
    temp0 |-> <<275>>,
    soc0 |-> <<400000, 410000, 425000, 450000, 500000>> ]

DischargeActions == {<<0, 1000, 0, 0, 1000>>}

NextDischarge ==
  \/ Construct("A", NoSeed, ProfDim)
  \/ \E a \in DischargeActions :
       twin["A"] # NoTwin /\ twin["A"].time_step < MaxDischargeStep
         /\ DoStep("A", a, ProfDim)

SpecDischarge == Init /\ [][NextDischarge]_vars

\* One twin with peak_demand injected, alone or along with a cloud cover, and
\* stepped until the timer of peak_demand has run out.
PeakKinds == {"peak_demand", "cloud_cover"}

NextPeak ==
  \/ Construct("A", NoSeed, ProfCalm)
  \/ twin["A"] # NoTwin /\ twin["A"].time_step < MaxPeakStep
       /\ DoStep("A", Idle, ProfCalm)
  \/ \E k \in PeakKinds : calls.inject < MaxPeakInject /\ DoInject("A", k)

SpecPeak == Init /\ [][NextPeak]_vars

\* One twin under winds around the cut-in, rated and cut-out speeds.
ProfGusty ==
  [ cloudNoise |-> <<-5, 5>>, windNoise |-> <<-35, 35>>, tempNoise |-> <<0>>,
    loadNoise |-> <<0>>,
    days |-> <<91>>, cloud0 |-> <<15>>, wind0 |-> <<50, 150>>,
    temp0 |-> <<275>>, soc0 |-> <<500000>> ]

NextWind ==
  \/ Construct("A", NoSeed, ProfGusty)
  \/ twin["A"] # NoTwin /\ twin["A"].time_step < MaxWindStep
       /\ DoStep("A", Idle, ProfGusty)

SpecWind == Init /\ [][NextWind]_vars

\* The training the dashboard runs: episodes of passes of the inner loop.
NextTraining ==
  \/ ClickTrain
  \/ TrainEpisode(ProfCalm)
  \/ \E l \in TrainLosses :
       calls.store < MaxTrainCycles /\ TrainCycle(ProfCalm, l)

SpecTraining == InitSession /\ [][NextTraining]_vars

\* The operator at the dashboard: Start, Pause, Reset and the comparison
\* checkbox around the run cycles.  Resets and changes of mode are explored
\* within the first steps and from max_steps on.
AtEnds ==
  app.current_step <= MaxEarlyStep \/ app.current_step >= MaxSteps

NextDashboard ==
  \/ ClickStart
  \/ ClickPause
  \/ app.resets < MaxSessionResets /\ AtEnds /\ ClickReset(ProfCalm)
  \/ app.toggles < MaxToggles /\ AtEnds /\ ToggleComparison
  \/ RunCycleComparison(ProfCalm)
  \/ app.current_step < MaxSteps + MaxPastLimit /\ RunCycleSingle(ProfCalm)

SpecDashboard == InitSession /\ [][NextDashboard]_vars

\* A session whose first training is complete, run and retrained.  What the
\* first training stored and learned is left out of the agent here: the run
\* cycles only ask it for actions, ranged over AgentActions whatever the
\* networks hold, and Retrain replaces it.
InitTrained ==
  /\ \E d1 \in InitDraws(Unseeded, ProfCalm) :
       \E d2 \in InitDraws(AfterInitDraws(Unseeded), ProfCalm) :
         twin = [i \in Ids |-> IF i = "A" THEN NewTwin(d1) ELSE NewTwin(d2)]
  /\ rng = AfterInitDraws(AfterInitDraws(Unseeded))
  /\ call = NoCall
  /\ ended = [i \in Ids |-> FALSE]
  /\ since = [i \in Ids |-> Untracked]
  /\ calls = NoCalls
  /\ agent = RLAgent(SessionStateDim)
  /\ app = [NewSession EXCEPT !.training_complete = TRUE, !.trainings = 1]

NextRetrain ==
  \/ ClickStart
  \/ app.current_step < MaxRetrainRun /\ RunCycleSingle(ProfCalm)
  \/ ClickRetrain
  \/ app.trainings < MaxTrainings /\ ClickTrain
  \/ TrainEpisode(ProfCalm)
  \/ \E l \in TrainLosses : TrainCycle(ProfCalm, l)

SpecRetrain == InitTrained /\ [][NextRetrain]_vars




----------------------------------------------------------------------------
\* Properties.

Built(i) == twin[i] # NoTwin

\* C1: in every state reached from a fresh or reset twin by step and
\* inject_event calls, battery_soc is in [0,1], stability_score in [0,1],
\* grid_frequency in [49,51] Hz and grid_voltage in [0.9,1.1] pu.
C1_Ranges ==
  \A i \in Ids : Built(i) =>
    LET s == twin[i].state IN
      /\ 0 <= s.battery_soc /\ s.battery_soc <= 1000000
      /\ 0 <= s.stability_score /\ s.stability_score <= 100000
      /\ 49000 <= s.grid_frequency /\ s.grid_frequency <= 51000
      /\ 9000 <= s.grid_voltage /\ s.grid_voltage <= 11000

\* A step taken after an event was injected left the voltage on its lower clip.
C1_Witness ==
  /\ Built("A") /\ call.op = "step" /\ ~call.raised /\ calls.inject > 0
  /\ twin["A"].state.grid_voltage = 9000
  /\ twin["A"].state.stability_score < 100000

\* C2 as stated: one of the first 1000 step calls returns done=True.
C2_DoneByStep1000 ==
  (Built("A") /\ twin["A"].time_step = Horizon) => ended["A"]

\* C2, amended: every step call that returns with the step counter above 1000
\* (the 1001st call and later) returns done=True, and a call up to the 1000th
\* returns done=True only for stability_score<0.5 or battery_health<0.5.
C2_DoneAfterHorizon ==
  (Built("A") /\ call.op = "step" /\ ~call.raised) =>
    /\ twin["A"].time_step > 1000 => call.done
    /\ (twin["A"].time_step <= 1000 /\ call.done) =>
         \/ twin["A"].state.stability_score < 50000
         \/ twin["A"].state.battery_health < 50000

\* The 1001st call returned done=True for the step count alone.
C2_Witness ==
  /\ Built("A") /\ call.op = "step" /\ call.done
  /\ twin["A"].time_step = 1001
  /\ twin["A"].state.stability_score >= 50000
  /\ twin["A"].state.battery_health >= 50000

\* C3: once a step has returned done=True, every later step of that twin
\* (no reset in between) leaves the twin unchanged and returns done=True.
C3_Absorbing ==
  [][\A i \in Ids :
       (ended[i] /\ call'.op = "step" /\ call'.id = i) =>
         (twin'[i] = twin[i] /\ ~call'.raised /\ call'.done)]_vars

\* C4: two twins constructed with one seed and stepped through one action
\* sequence have the same state after the same number of steps, however their
\* calls are interleaved.
C4_SameTrajectory ==
  (Built("A") /\ Built("B") /\ twin["A"].time_step = twin["B"].time_step) =>
    twin["A"] = twin["B"]

\* C5: a call on one twin leaves the other twin, and the random source the
\* other twin draws from, unchanged.
C5_NoSharedState ==
  [][\A i, j \in Ids :
       (i # j /\ Built(j) /\ call'.id = i) =>
         (twin'[j] = twin[j] /\ rng' = rng)]_vars

\* C6: inject_event('cloud_cover') sets cloud_cover to 0.9, and with no other
\* event injected since, event processing reverts it to 0.2 on the 10th step
\* call after the injection and on no other.
C6_CloudRevertsAtTen ==
  \A i \in Ids : (Built(i) /\ call.id = i) =>
    /\ (call.op = "inject" /\ call.kind = "cloud_cover") =>
         twin[i].state.cloud_cover = 90
    /\ (call.op = "step" /\ since[i].cloud_cover >= 1) =>
         /\ ("cloud_cover" \in call.reverted) <=> (since[i].cloud_cover = 10)
         /\ since[i].cloud_cover = 10 => twin[i].state.cloud_cover = 20

\* C7: inject_event('wind_drop') sets wind_speed to 1.0; the event does not
\* revert it during the next 14 step calls, reverts it to 10.0 on the 15th, and
\* is no longer active from the 16th on.
C7_WindRevertsAtFifteen ==
  \A i \in Ids : (Built(i) /\ call.id = i) =>
    /\ (call.op = "inject" /\ call.kind = "wind_drop") =>
         twin[i].state.wind_speed = 10
    /\ (call.op = "step" /\ since[i].wind_drop >= 1) =>
         /\ ~call.raised
         /\ ("wind_drop" \in call.reverted) <=> (since[i].wind_drop = 15)
         /\ since[i].wind_drop = 15 => twin[i].state.wind_speed = 100
         /\ since[i].wind_drop >= 15 =>
              /\ ~InSeq(twin[i].active_events, "wind_drop")
              /\ "wind_drop" \notin DOMAIN twin[i].event_timers

C8_Perturbed(t, t2, kind) ==
  CASE kind = "cloud_cover" -> t2.state.cloud_cover = 90
    [] kind = "wind_drop" -> t2.state.wind_speed = 10
    [] kind = "peak_demand" ->
         t2.state.load_demand = (t.state.load_demand * 15) \div 10
    [] kind = "battery_degradation" ->
         t2.state.battery_health = (t.state.battery_health * 8) \div 10

C8_TimerOf(kind) ==
  CASE kind = "cloud_cover" -> 10
    [] kind = "wind_drop" -> 15
    [] kind = "peak_demand" -> 20
    [] kind = "battery_degradation" -> 5

\* C8 as stated: only cloud_cover (10) and wind_drop (15) arm a timer;
\* peak_demand and battery_degradation perturb the state and leave
\* active_events and event_timers as they were.
C8_OnlyTwoArm ==
  [][\A i \in Ids :
       (Built(i) /\ call'.op = "inject" /\ call'.id = i) =>
         /\ C8_Perturbed(twin[i], twin'[i], call'.kind)
         /\ IF call'.kind \in {"cloud_cover", "wind_drop"}
            THEN /\ call'.kind \in DOMAIN twin'[i].event_timers
                 /\ twin'[i].event_timers[call'.kind] = C8_TimerOf(call'.kind)
            ELSE /\ twin'[i].event_timers = twin[i].event_timers
                 /\ twin'[i].active_events = twin[i].active_events]_vars

\* C8, amended: inject_event arms a timer for each of the four kinds
\* (cloud_cover 10, wind_drop 15, peak_demand 20, battery_degradation 5 steps),
\* appends the kind to active_events, and applies the kind's perturbation.
C8_AllFourArm ==
  [][\A i \in Ids :
       (Built(i) /\ call'.op = "inject" /\ call'.id = i) =>
         /\ C8_Perturbed(twin[i], twin'[i], call'.kind)
         /\ twin'[i].active_events = Append(twin[i].active_events, call'.kind)
         /\ DOMAIN twin'[i].event_timers
              = DOMAIN twin[i].event_timers \cup {call'.kind}
         /\ twin'[i].event_timers[call'.kind] = C8_TimerOf(call'.kind)
         /\ \A k \in DOMAIN twin[i].event_timers \ {call'.kind} :
              twin'[i].event_timers[k] = twin[i].event_timers[k]]_vars

\* peak_demand was injected and its 20-step timer is armed.
C8_Witness ==
  /\ Built("A") /\ call.op = "inject" /\ call.kind = "peak_demand"
  /\ InSeq(twin["A"].active_events, "peak_demand")
  /\ "peak_demand" \in DOMAIN twin["A"].event_timers
  /\ twin["A"].event_timers["peak_demand"] = 20

\* C9: with no reset, battery_health never increases: a step that returns
\* multiplies it by 0.9999, inject_event('battery_degradation') by 0.8, every
\* other call (and the expiry of any timer) does not raise it.
C9_HealthNonIncreasing ==
  [][\A i \in Ids :
       (Built(i) /\ call'.op \in {"step", "inject"}) =>
         LET h == twin[i].state.battery_health
             h2 == twin'[i].state.battery_health
         IN /\ h2 <= h
            /\ (call'.op = "step" /\ call'.id = i /\ ~call'.raised) =>
                 h2 = (h * 9999) \div 10000
            /\ (call'.op = "inject" /\ call'.id = i) =>
                 h2 = IF call'.kind = "battery_degradation"
                      THEN (h * 8) \div 10 ELSE h]_vars

\* The timer of an injected battery_degradation has run out.
C9_Witness ==
  /\ Built("A") /\ call.op = "step" /\ ~call.raised
  /\ twin["A"].state.battery_health < 80000
  /\ twin["A"].state.battery_health > 0
  /\ ~InSeq(twin["A"].active_events, "battery_degradation")
  /\ "battery_degradation" \notin DOMAIN twin["A"].event_timers

C10_Clipped(action) ==
  [i \in 1..5 |-> IF action[i] < 0 THEN 0 ELSE IF action[i] > 1000 THEN 1000
                  ELSE action[i]]

OutOfRange ==
  {a \in Actions : \E i \in 1..5 : a[i] < 0 \/ a[i] > 10}
    \cup {<<-500, 2000, 1300, -100, 3000>>, <<600, 1500, 1000, 9900, 1100>>}

\* C10: for the same pre-state and the same draws, step(a) and
\* step(clip(a,0,1)) give the same post-state, reward and done, and neither
\* is rejected.
C10_ClipThenStep ==
  Built("A") =>
    \A a \in OutOfRange : \A d \in StepDraws(rng, ProfWide) :
      Step(twin["A"], a, d) = Step(twin["A"], C10_Clipped(a), d)

\* A step was taken with action components outside [0,1] and returned.
C10_Witness ==
  /\ Built("A") /\ call.op = "step" /\ ~call.raised
  /\ \E i \in 1..5 : call.action[i] > 1000
  /\ \E i \in 1..5 : call.action[i] < 0
  /\ twin["A"].state.battery_charge_rate < 0

C12_DuplicatesCurrent ==
  (Built("A") /\ call.op = "observe"
     /\ (call.forecast.solar = None \/ call.forecast.wind = None
           \/ call.forecast.load = None)) =>
    /\ Len(call.obs) = 13
    /\ \A i \in 1..3 : call.obs[10 + i] = call.obs[i]
    /\ call.obs[13] = twin["A"].state.load_demand * 1000
    /\ call.obs[13] > 0

\* get_state_vector was called with two of the three forecast values and
\* returned the current load, not the forecast one, as component 13.
C12_Witness ==
  /\ Built("A") /\ call.op = "observe"
  /\ call.forecast.solar = None /\ call.forecast.wind # None
  /\ call.forecast.load # None
  /\ call.obs[13] # call.forecast.load[1] * 1000
  /\ call.obs[13] = call.obs[3]

C13_Surplus(s) == s.solar_generation + s.wind_generation - s.load_demand

C13_RuleTable(s) ==
  LET surplus == C13_Surplus(s) IN
    [ charge |-> IF surplus > 0 /\ s.battery_soc < 800000
                 THEN (IF surplus >= 200 THEN 1000 ELSE surplus * 5) ELSE 0,
      discharge |-> IF surplus < 0 /\ s.battery_soc > 200000
                    THEN (IF -surplus >= 200 THEN 1000 ELSE (-surplus) * 5)
                    ELSE 0,
      load_shift |-> IF s.stability_score < 85000 THEN 500 ELSE 0,
      grid_import |-> IF surplus < -100 THEN 800
                      ELSE IF -100 <= surplus /\ surplus < 0 THEN 300 ELSE 0,
      curtailment |-> IF s.battery_soc > 950000 /\ surplus > 200 THEN 300
                      ELSE 0 ]

\* C13: LegacyGridController.get_action returns the action of the rule table
\* (charge, discharge, load-shift, grid-import, curtailment from surplus =
\* solar+wind-load, SOC and stability_score), returns the same action when
\* called again on an unchanged state, and never modifies the state.
C13_PureRuleTable ==
  [][\A i \in Ids :
       (Built(i) /\ call'.op = "get_action" /\ call'.id = i) =>
         LET want == C13_RuleTable(twin[i].state) IN
           /\ call'.action = << want.charge, want.discharge, want.load_shift,
                                want.grid_import, want.curtailment >>
           /\ twin' = twin /\ rng' = rng
           /\ (call.op = "get_action" /\ call.id = i) =>
                call'.action = call.action]_vars

\* The controller answered a full battery under a surplus above 200 kW with
\* curtailment 0.3 and nothing else.
C13_Witness ==
  /\ Built("A") /\ call.op = "get_action"
  /\ C13_Surplus(twin["A"].state) > 200
  /\ twin["A"].state.battery_soc > 950000
  /\ call.action = <<0, 0, 0, 0, 300>>

\* C14: in every reachable state total_violations equals frequency_violations
\* + voltage_violations + soc_violations, and no counter decreases under step
\* or inject_event.
C14_CountersConsistent ==
  [][\A i \in Ids : (twin'[i] # NoTwin) =>
       LET w == twin'[i].safety_violations IN
         /\ w.total_violations
              = w.frequency_violations + w.voltage_violations + w.soc_violations
         /\ (Built(i) /\ call'.op \in {"step", "inject"}) =>
              LET v == twin[i].safety_violations IN
                /\ w.frequency_violations >= v.frequency_violations
                /\ w.voltage_violations >= v.voltage_violations
                /\ w.soc_violations >= v.soc_violations
                /\ w.total_violations >= v.total_violations]_vars

\* One step counted a frequency and a voltage violation together.
C14_Witness ==
  /\ Built("A") /\ call.op = "step" /\ calls.step = 1
  /\ twin["A"].safety_violations.frequency_violations = 1
  /\ twin["A"].safety_violations.voltage_violations = 1
  /\ twin["A"].safety_violations.total_violations = 2

\* C15: train_step(batch_size) on a buffer with fewer than batch_size
\* transitions returns policy_loss=0, value_loss=0, entropy=0 and leaves the
\* buffer, both networks and the random source as they were.
C15_UnderfilledNoOp ==
  [][(call'.op = "train" /\ Len(agent.buffer) < call'.batch_size) =>
       /\ call'.metrics = ZeroMetrics
       /\ agent' = agent
       /\ rng' = rng]_vars

\* train_step(64) was called on a buffer of 63 transitions and returned zeros.
C15_Witness ==
  /\ call.op = "train" /\ call.batch_size = DefaultBatchSize
  /\ Len(agent.buffer) = DefaultBatchSize - 1
  /\ call.metrics = ZeroMetrics
  /\ agent.policy_steps = 0 /\ agent.value_steps = 0

C16_Stored(n) ==
  LET x == Payload(n) IN <<x.state, x.action, x.reward, x.next_state, x.done>>

C17_Cmd(x) == IF x < 0 THEN 0 ELSE IF x > 1000 THEN 1000 ELSE x

\* C17: a step with charge command > 0.5, pre-step SOC below 0.95 (headroom of
\* at least 1 kW, the resolution of power here) and curtailed renewable output
\* above the shifted load leaves battery_soc strictly greater and
\* battery_charge_rate negative, and the charging power is at most the surplus,
\* at most command x 200 kW, and at most the headroom to SOC 0.95.
C17_ChargeUnderSurplus ==
  [][\A i \in Ids :
       (Built(i) /\ call'.op = "step" /\ call'.id = i /\ ~call'.raised) =>
         LET pre == twin[i].state
             post == twin'[i].state
             charge_cmd == C17_Cmd(call'.action[1])
             renewable == post.solar_generation + post.wind_generation
             curtailed ==
               (renewable * (2000 - C17_Cmd(call'.action[5]))) \div 2000
             shifted ==
               (post.load_demand * (5000 - C17_Cmd(call'.action[3]))) \div 5000
             headroom == (950000 - pre.battery_soc) \div 100
             charge_power == -post.battery_charge_rate
         IN (charge_cmd > 500 /\ headroom >= 1 /\ curtailed > shifted) =>
              /\ post.battery_soc > pre.battery_soc
              /\ post.battery_charge_rate < 0
              /\ charge_power <= curtailed - shifted
              /\ charge_power * 1000 <= charge_cmd * MaxChargeRate
              /\ charge_power <= headroom]_vars

\* A full charge command under a surplus above 200 kW charged less than 200 kW,
\* the headroom to SOC 0.95 being the limit.
C17_Witness ==
  /\ Built("A") /\ call.op = "step" /\ call.action[1] = 1000
  /\ twin["A"].state.solar_generation + twin["A"].state.wind_generation
       - twin["A"].state.load_demand > MaxChargeRate
  /\ twin["A"].state.battery_charge_rate < 0
  /\ twin["A"].state.battery_charge_rate > -MaxChargeRate
  /\ twin["A"].state.battery_soc > 900000
  /\ twin["A"].state.battery_soc < 950000

\* C18 as stated: wind_generation is 0 below 3 m/s, 300*(v-3)/9 from 3 to 12,
\* 300 kW from 12 up to and including 25 m/s, and 0 only above 25 m/s.
C18_RatedThroughCutOut ==
  (Built("A") /\ call.op = "step") =>
    LET v == twin["A"].state.wind_speed IN
      twin["A"].state.wind_generation =
        IF v < 30 THEN 0
        ELSE IF v <= 120 THEN (300 * (v - 30)) \div 90
        ELSE IF v <= 250 THEN 300 ELSE 0

\* C18, amended: wind_generation is 0 below 3 m/s, 300*(v-3)/9 from 3 to 12,
\* 300 kW from 12 to below 25 m/s (so 300 kW at v=15), and 0 at 25 m/s, the
\* largest value wind_speed takes.
C18_CutOutAtTwentyFive ==
  (Built("A") /\ call.op = "step") =>
    LET v == twin["A"].state.wind_speed IN
      /\ v <= 250
      /\ twin["A"].state.wind_generation =
           IF v < 30 THEN 0
           ELSE IF v <= 120 THEN (300 * (v - 30)) \div 90
           ELSE IF v < 250 THEN 300 ELSE 0

\* A step left wind_speed on its upper clip, 25 m/s, and wind_generation at 0.
C18_Witness ==
  /\ Built("A") /\ call.op = "step"
  /\ twin["A"].state.wind_speed = 250
  /\ twin["A"].state.wind_generation = 0
  /\ twin["A"].time_step = 4
----------------------------------------------------------------------------
\* C19: in the training loop every stored transition pairs the observation
\* taken of temp_sim before the step with the action passed to that step, the
\* reward and done that step returned and the observation taken after it: the
\* first observation is of the twin as it was before step changed it.
C19_PairsPreAndPost ==
  [][ calls'.store = calls.store + 1 =>
        LET x == agent'.buffer[Len(agent'.buffer)]
            pre == app.training.temp_sim
            post == app'.training.temp_sim
            fs == ForecastArgs(TRUE, app'.training.temp_forecaster)
        IN /\ \E f \in fs : x[1] = GetStateVector(pre, f)
           /\ \E f \in fs : x[4] = GetStateVector(post, f)
           /\ \E d \in StepDraws(rng, ProfCalm) :
                LET r == Step(pre, x[2], d)
                IN r.tw = post /\ x[3] = r.reward /\ x[5] = r.done
           /\ x[2] = call'.action ]_vars

\* A pass made with a forecast has stored a transition whose two observations
\* differ, so the one taken before the step is told from the one after.
C19_Witness ==
  /\ call.op = "train_cycle"
  /\ call.forecast # NoForecast
  /\ Len(agent.buffer) >= SequenceLength
  /\ LET x == agent.buffer[Len(agent.buffer)]
     IN /\ x[1] # x[4]
        /\ x[4] = GetStateVector(app.training.temp_sim, call.forecast)
        /\ x[2] = call.action

----------------------------------------------------------------------------
\* C20: the dashboard bounds the steps: once current_step >= max_steps a run
\* cycle makes no step call, in comparison mode and in single mode, and
\* between two resets no twin is stepped more than max_steps times.
C20_BoundedByMaxSteps ==
  [][ /\ app.current_step >= MaxSteps => calls'.step = calls.step
      /\ \A i \in Ids : app'.steps[i] <= MaxSteps ]_vars

----------------------------------------------------------------------------
\* C21: at every call site the observation passed to select_action, and the
\* one store_transition keeps, has the length the agent was constructed for
\* (state_dim), whatever the operator did before: train, run, Retrain, train.
C21_DimensionsMatch ==
  /\ call.select # <<>> => Len(call.select) = agent.state_dim
  /\ (call.op = "train_cycle" /\ call.stored # <<>>) =>
       Len(call.stored[1]) = agent.state_dim

----------------------------------------------------------------------------
\* C22: for every interleaving of inject_event and step calls, a kind injected
\* again while active included, step completes without raising.
C22_StepNeverRaises ==
  \A i \in Ids : (Built(i) /\ call.id = i /\ call.op = "step") => ~call.raised

\* C23: the countdown of an active kind drops by exactly one per step call,
\* also when the kind was injected more than once: N steps after the latest
\* injection (10 for cloud_cover, 15 for wind_drop) the condition is reverted,
\* on no other step, and from then on the kind is neither in active_events nor
\* in event_timers.
C23_StepsOf(kind) ==
  IF kind = "cloud_cover" THEN CloudEventSteps ELSE WindEventSteps

C23_CountdownByOne ==
  \A i \in Ids : \A k \in DOMAIN Untracked :
    (Built(i) /\ call.id = i /\ call.op = "step" /\ ~call.raised
       /\ since[i][k] >= 1) =>
      /\ since[i][k] < C23_StepsOf(k) =>
           /\ k \in DOMAIN twin[i].event_timers
           /\ twin[i].event_timers[k] = C23_StepsOf(k) - since[i][k]
      /\ (k \in call.reverted) <=> (since[i][k] = C23_StepsOf(k))
      /\ since[i][k] >= C23_StepsOf(k) =>
           /\ ~InSeq(twin[i].active_events, k)
           /\ k \notin DOMAIN twin[i].event_timers

----------------------------------------------------------------------------
\* C24: a step that starts with battery_soc >= 0.10 and discharges never
\* leaves battery_soc below 0.10, the division by the efficiency included.
C24_FloorRespected ==
  [][\A i \in Ids :
       (Built(i) /\ call'.op = "step" /\ call'.id = i /\ ~call'.raised
          /\ twin[i].state.battery_soc >= 100000
          /\ twin'[i].state.battery_charge_rate > 0) =>
         twin'[i].state.battery_soc >= 100000]_vars

----------------------------------------------------------------------------
\* C25: from a new or reset twin (initial SOC in [0.4, 0.6]) no step takes
\* battery_soc above 0.95, so no SOC violation is counted for a high SOC and
\* the baseline controller's curtailment rule (SOC > 0.95) never fires on a
\* state of the twin.
C25_NeverAbove95 ==
  [][\A i \in Ids : Built(i)' =>
       /\ twin'[i].state.battery_soc <= 950000
       /\ LegacyGetAction(twin'[i].state)[5] = 0
       /\ (Built(i) /\ call'.op = "step" /\ call'.id = i
             /\ twin'[i].safety_violations.soc_violations
                  > twin[i].safety_violations.soc_violations) =>
            twin'[i].state.battery_soc < 100000]_vars

\* A charge command was limited by the headroom and left the SOC within half
\* a percent below 0.95, with a surplus that would have taken it beyond.
C25_Witness ==
  /\ Built("A") /\ call.op = "step" /\ call.action[1] > 500
  /\ twin["A"].state.battery_soc >= 945000
  /\ twin["A"].state.battery_soc <= 950000
  /\ twin["A"].state.battery_charge_rate < 0
  /\ twin["A"].state.solar_generation + twin["A"].state.wind_generation
       - twin["A"].state.load_demand > 2 * (-twin["A"].state.battery_charge_rate)

----------------------------------------------------------------------------
\* C26: grid_frequency is only ever given values within [49, 51] Hz, so the
\* termination test |grid_frequency - 50| > 2 Hz holds in no reachable state,
\* and a step returns done=True only with stability_score < 0.5,
\* battery_health < 0.5 or the step counter beyond the horizon.
C26_FrequencyNeverTerminates ==
  \A i \in Ids : Built(i) =>
    /\ twin[i].state.grid_frequency >= 49000
    /\ twin[i].state.grid_frequency <= 51000
    /\ ~(Abs(twin[i].state.grid_frequency - 50000) > 2000)
    /\ (call.op = "step" /\ call.id = i /\ call.done) =>
         \/ twin[i].state.stability_score < 50000
         \/ twin[i].state.battery_health < 50000
         \/ twin[i].time_step > Horizon

\* A step returned done=True with the frequency off its nominal value.
C26_Witness ==
  /\ Built("A") /\ call.op = "step" /\ call.done
  /\ twin["A"].state.grid_frequency # 50000
  /\ twin["A"].time_step > Horizon

----------------------------------------------------------------------------
\* C27: after every step call wind_generation is the power curve applied to
\* the wind_speed of the same state, on the step in which a wind_drop timer
\* runs out and on the steps after an inject_event included.
C27_WindConsistent ==
  \A i \in Ids :
    (Built(i) /\ call.op = "step" /\ call.id = i /\ ~call.raised) =>
      twin[i].state.wind_generation = WindPower(twin[i].state.wind_speed)

----------------------------------------------------------------------------
\* C28: reset() leaves the twin as a newly constructed one is, up to the
\* values drawn: time_step 0, no active event and no timer, the four
\* safety-violation counters 0, and grid_import, battery_charge_rate and the
\* stability_score and energy_cost derived from them as in a new twin.
C28_ResetAsNew ==
  [][\A i \in Ids :
       (Built(i) /\ call'.op = "reset" /\ call'.id = i) =>
         /\ twin'[i].time_step = 0
         /\ twin'[i].active_events = <<>>
         /\ DOMAIN twin'[i].event_timers = {}
         /\ twin'[i].safety_violations = NoViolations
         /\ twin'[i].state.grid_import = 0
         /\ twin'[i].state.battery_charge_rate = 0
         /\ \E d \in InitDraws(rng, ProfWide) : twin'[i] = NewTwin(d)]_vars

----------------------------------------------------------------------------
\* C29: inject_event('peak_demand') multiplies the stored load_demand by 1.5,
\* and no step that returns is influenced by it: step recomputes load_demand
\* from the load formula before the events are processed and before the
\* balance, so the state after the step is the one the step would have left
\* without the injection, and load_demand is within [240, 800] kW.
C29_WithoutPeak(t) ==
  [t EXCEPT !.state.load_demand = (@ * 2) \div 3,
            !.active_events = SelectSeq(@, LAMBDA e : e # "peak_demand"),
            !.event_timers = [k \in DOMAIN @ \ {"peak_demand"} |-> @[k]]]

C29_PeakNeverInBalance ==
  [][\A i \in Ids : (Built(i) /\ call'.id = i) =>
       /\ (call'.op = "inject" /\ call'.kind = "peak_demand") =>
            /\ twin'[i].state.load_demand = (twin[i].state.load_demand * 3) \div 2
            /\ twin'[i].state = [twin[i].state EXCEPT
                                   !.load_demand = twin'[i].state.load_demand]
       /\ (call'.op = "step" /\ ~call'.raised) =>
            /\ twin'[i].state.load_demand >= 240
            /\ twin'[i].state.load_demand <= 800
            /\ \E d \in StepDraws(rng, ProfCalm) :
                 /\ Step(twin[i], call'.action, d).tw = twin'[i]
                 /\ Step(C29_WithoutPeak(twin[i]), call'.action, d).tw.state
                      = twin'[i].state]_vars

\* The step right after an injection of peak_demand, the multiplied load
\* still stored when it began, has returned.
C29_Witness ==
  /\ Built("A") /\ call.op = "step" /\ ~call.raised
  /\ since["A"].cloud_cover = -1 /\ since["A"].wind_drop = -1
  /\ twin["A"].active_events = <<"peak_demand">>
  /\ twin["A"].event_timers["peak_demand"] = PeakEventSteps - 1
  /\ twin["A"].state.load_demand >= 240
  /\ twin["A"].state.load_demand <= 800

----------------------------------------------------------------------------
\* C30: in every reachable state frequency_violations <= voltage_violations:
\* a step that counts a frequency violation (imbalance beyond 500 kW) counts a
\* voltage violation too (imbalance beyond 100 kW), and no call lowers or
\* clears one counter without the other.
C30_FrequencyWithinVoltage ==
  [][\A i \in Ids : Built(i)' =>
       /\ twin'[i].safety_violations.frequency_violations
            <= twin'[i].safety_violations.voltage_violations
       /\ Built(i) =>
            twin'[i].safety_violations.frequency_violations
                - twin[i].safety_violations.frequency_violations
              <= twin'[i].safety_violations.voltage_violations
                   - twin[i].safety_violations.voltage_violations]_vars

\* A step counted both violations and another one the voltage violation alone.
C30_Witness ==
  /\ Built("A") /\ call.op = "step"
  /\ twin["A"].safety_violations.frequency_violations >= 1
  /\ twin["A"].safety_violations.voltage_violations
       > twin["A"].safety_violations.frequency_violations

====
